---------------------------- MODULE Spec2Model ----------------------------
(***************************************************************************)
(* The decode scheduler of libav-player (src/libav-player/src/player.rs):  *)
(* MediaPlayerBuilder::build and the process_next_frame loop with          *)
(* get_next_frame, get_ready_frame, read_next_packet, dispatch_packet and  *)
(* flush, over the decoders of src/libav-player/src/codec/mod.rs, with     *)
(* play and pause; the accelerator configuration                           *)
(* (src/libav-player/src/accelerator.rs); decoder construction with        *)
(* hardware fallback (src/wgpu-player/src/codec.rs); and stream selection  *)
(* (InputSource::find_best_stream, src/wgpu-player/src/input.rs).          *)
(*                                                                         *)
(* The native codec (avcodec_send_packet / avcodec_receive_frame) is       *)
(* modelled by its packet-in / frame-out contract: a decoder holds frames  *)
(* it can hand out now (avail), frames it keeps back until more input or a *)
(* drain signal arrives (held, at most MaxDelay of them), and a draining   *)
(* flag; how many frames the codec keeps back on a write is the codec's    *)
(* choice.  Presentation timestamps are 64-bit integers in the code; only  *)
(* their order and their equality with i64::MAX matter to the scheduler,   *)
(* so the model keeps an order-preserving image 0..I64_MAX of them in      *)
(* which the top value stands for i64::MAX.  Wall-clock statistics         *)
(* (the *_time fields) are left out.  The integer cast of find_best_stream *)
(* is modelled on narrow images of usize and i32 (0..USIZE_MAX and         *)
(* -(I32_MAX + 1)..I32_MAX) that keep usize the wider of the two.          *)
(*                                                                         *)
(* Specifications: Spec / FairSpec (the scheduler), TransportSpec (the     *)
(* scheduler with play and pause), SeekSpec (the scheduler with seek),     *)
(* SubtitleSpec (the scheduler on a subtitle-only source that does not     *)
(* fail), ConfigSpec (AcceleratorConfig), OpenSpec (VideoDecoder::open and *)
(* BaseDecoder::open), FindSpec (find_best_stream), SubtitleDecoderSpec    *)
(* (SubtitleDecoder, src/libav-player/src/codec/subtitle.rs), BuilderSpec  *)
(* (the keep_streams closure of both builders) and DeviceSpec (the         *)
(* references to a hardware device context).  Each leaves the variables of *)
(* the other components at their initial values.  delivered and ended are  *)
(* history variables: they record what the caller was given and steer      *)
(* nothing.                                                                *)
(***************************************************************************)
EXTENDS Integers, Sequences, FiniteSets, TLC

\* ------------------------------------------------------------------ bounds
\* items (packets or read failures) the source holds before its end
MaxPackets == 2
\* frames the packets of the source decode to, all together
MaxFrames == 3
\* frames a codec can keep back until it is drained
MaxDelay == 1
\* accelerators in a list handed to set_accelerators
MaxAccelerators == 3
\* streams of the source find_best_stream looks through
MaxStreams == 2
\* subtitles a SubtitleDecoder is made to decode
MaxSubtitles == 4
\* streams of the source a player is built on
MaxSourceStreams == 3

\* ------------------------------------------------------- program constants
\* image of i64::MAX, the "not ready" timestamp of get_ready_frame
I64_MAX == 2
\* index of a stream that is neither video, audio nor subtitle
DataStreamIndex == 3
\* hw_platform_flags
WINDOWS == 1
LINUX == 2
MACOS == 4
\* the errno play and pause take for "not supported"
ENOSYS == -38
\* image of i32::MAX: the C int av_find_best_stream takes its wanted stream as
I32_MAX == 3
\* image of usize::MAX: the type of preferred_stream_index, wider than i32
USIZE_MAX == 15
\* FFmpeg's error codes for "stream not found" and "decoder not found"
AVERROR_STREAM_NOT_FOUND == -1381258232
AVERROR_DECODER_NOT_FOUND == -1128613112

Kinds == {"video", "audio", "subtitle"}
Pts == 0..I64_MAX
\* Option::None of a readiness marker
None == -1

VARIABLES
    pc,                   \* position of the caller / of process_next_frame
    streams,              \* media kinds for which the source has a stream
    decoder,              \* decoder_video / decoder_audio / decoder_subtitle
    frame_ready,          \* frame_video_ready / frame_audio_ready / frame_subtitle_ready
    end_of_packet_stream, \* MediaPlayer::end_of_packet_stream
    packet,               \* the scratch packet
    statistics,           \* PlayerStatistics (counters)
    result,               \* what the last process_next_frame call returned
    last_frame,           \* the frame the last successful call returned
    delivered,            \* per stream: which of its decoder's frames was delivered last
    ended,                \* some process_next_frame call has returned end-of-stream
    flush_calls,          \* per decoder: times flush was invoked on it (saturates at 2)
    flush_order,          \* the decoders flush was invoked on, in call order (as counted)
    source_pos,           \* items of the source consumed so far
    source_frames,        \* frames the packets read so far decode to
    source_eof,           \* the source has reported end-of-input
    reads_ok,             \* successful packet reads so far
    multi_frame_packet,   \* some packet read so far decodes to more than one frame
    transport,            \* the play / pause call made last, if no other call followed
    target_platform,      \* set_accelerators: the flag of the OS the build targets
    affinity,             \* AcceleratorConfig::affinity
    accelerators,         \* the list the caller hands to set_accelerators
    supplied,             \* the list the last set_accelerators call was given
    warned,               \* the last set_accelerators call logged its warning
    opening,              \* the decoder type whose open constructor is running
    open_pc,              \* position of the open constructor / of its caller
    hw,                   \* per accelerator: what the codec and the machine offer for it
    codec_params,         \* the codec_params argument is Some
    next_accelerator,     \* position of the loop over accelerators()
    tried,                \* accelerators create_accelerated_decoder was called for
    video_decoder,        \* the decoder under construction / returned
    open_result,          \* what the open constructor returned
    faulted,              \* a failure other than a soft accelerator failure occurred
    ctx_streams,          \* (*ctx).streams of the InputSource find_best_stream is called on
    find_request,         \* the arguments of the find_best_stream call
    find_result,          \* what find_best_stream returned
    subtitle_decoder,     \* a SubtitleDecoder, the frame its caller decodes into, the calls made
    builder,              \* a MediaPlayerBuilder: the streams build selects and keeps
    hw_device             \* one accelerated construction: the references to its device context

\* the accelerator configuration
config_vars == <<target_platform, affinity, accelerators, supplied, warned>>

\* decoder construction
open_vars == <<opening, open_pc, hw, codec_params, next_accelerator, tried,
               video_decoder, open_result, faulted>>

\* InputSource::find_best_stream
find_vars == <<ctx_streams, find_request, find_result>>

\* components checked on their own
component_vars == <<subtitle_decoder, builder, hw_device>>

vars == <<pc, streams, decoder, frame_ready, end_of_packet_stream, packet,
          statistics, result, last_frame, delivered, ended, flush_calls, flush_order,
          source_pos, source_frames, source_eof,
          reads_ok, multi_frame_packet, transport,
                   config_vars, open_vars, find_vars, component_vars>>

\* ------------------------------------------------------------------ helpers
Min(a, b) == IF a < b THEN a ELSE b

\* TaggedDecoder::stream.index of the stream selected for a kind
StreamIndex(k) == CASE k = "video" -> 0 [] k = "audio" -> 1 [] OTHER -> 2

\* the per-kind counter of PlayerStatistics
Counter(k) == CASE k = "video" -> "num_video_frames_decoded"
                [] k = "audio" -> "num_audio_frames_decoded"
                [] OTHER -> "num_subtitle_frames_decoded"

NoDecoder == [present |-> FALSE, avail |-> 0, held |-> 0, draining |-> FALSE]
NoFrame == [kind |-> "none", pts |-> None]
NoPacket == [stream_index |-> DataStreamIndex, frames |-> 0, bad |-> FALSE]


\* ------------------------------------------------------ error classification
\* FFmpegError::needs_data: the error is EAGAIN
needs_data(err) == err = "EAGAIN"

\* FFmpegError::is_eof: the error is AVERROR_EOF
is_eof(err) == err = "EOF"

\* ignore_out_of_data_error: Ok(true) for Ok, Ok(false) for EAGAIN, the error otherwise
ignore_out_of_data_error(res) ==
    IF res = "Ok" THEN "true"
    ELSE IF needs_data(res) THEN "false"
    ELSE res

\* ------------------------------------------------------------------ decoders
\* Decoder::write_packet (avcodec_send_packet): refused with EOF once draining,
\* with EAGAIN while output is waiting to be read, with a hard error for a
\* packet the codec rejects; otherwise the packet's frames enter the decoder,
\* which keeps back `keep` of the frames it now holds.
Decoder_write_packet(d, pkt, keep) ==
    IF d.draining THEN [res |-> "EOF", dec |-> d]
    ELSE IF d.avail > 0 THEN [res |-> "EAGAIN", dec |-> d]
    ELSE IF pkt.bad THEN [res |-> "OTHER", dec |-> d]
    ELSE LET total == d.held + pkt.frames
             k == Min(total, keep)
         IN [res |-> "Ok", dec |-> [d EXCEPT !.held = k, !.avail = total - k]]

\* BaseDecoder::decode (avcodec_receive_frame): a waiting frame is handed out
\* (or lost to a hard error when fails), else EOF once draining, else EAGAIN.
BaseDecoder_decode(d, fails) ==
    IF d.avail > 0
    THEN [res |-> IF fails THEN "OTHER" ELSE "Ok", dec |-> [d EXCEPT !.avail = @ - 1]]
    ELSE IF d.draining THEN [res |-> "EOF", dec |-> d]
    ELSE [res |-> "EAGAIN", dec |-> d]

\* VideoDecoder::decode
VideoDecoder_decode(d, fails) == BaseDecoder_decode(d, fails)

\* Decoder::flush, the default the BaseDecoder inherits: does nothing
Decoder_flush(d) == d

\* VideoDecoder::flush: signals end of input, the frames kept back become available
VideoDecoder_flush(d) == [d EXCEPT !.draining = TRUE, !.avail = @ + d.held, !.held = 0]

\* ----------------------------------------------------------- get_ready_frame
ReadyTs(fr, k) == IF fr[k] = None THEN I64_MAX ELSE fr[k]

\* get_ready_frame with the priority reversed (subtitle, audio, video) and the
\* latest timestamp preferred: what C2 rules out
get_ready_frame_latest(fr) ==
    LET ready == {k \in Kinds : fr[k] # None /\ fr[k] # I64_MAX}
        k == IF ready = {} THEN "none"
             ELSE CHOOSE c \in ready :
                    \A j \in ready \ {c} :
                       \/ fr[c] > fr[j]
                       \/ fr[c] = fr[j] /\ StreamIndex(c) > StreamIndex(j)
    IN IF k = "none"
       THEN [kind |-> "none", fr |-> fr, frame |-> NoFrame]
       ELSE [kind |-> k, fr |-> [fr EXCEPT ![k] = None],
             frame |-> [kind |-> k, pts |-> fr[k]]]

\* get_ready_frame returning the earliest ready frame without clearing its
\* marker: what C36 rules out
get_ready_frame_keeping_marker(fr) ==
    LET ready == {k \in Kinds : fr[k] # None /\ fr[k] # I64_MAX}
        k == CHOOSE k \in ready :
                \A j \in ready \ {k} :
                    fr[k] < fr[j] \/ (fr[k] = fr[j] /\ StreamIndex(k) < StreamIndex(j))
    IN IF ready = {}
       THEN [kind |-> "none", fr |-> fr, frame |-> NoFrame]
       ELSE [kind |-> k, fr |-> fr, frame |-> [kind |-> k, pts |-> fr[k]]]

\* get_ready_frame: the stream whose frame is returned ("none" for Ok(None)),
\* the markers afterwards, and the frame
get_ready_frame(fr) ==
    LET video_ready_ts == ReadyTs(fr, "video")
        audio_ready_ts == ReadyTs(fr, "audio")
        subtitle_ready_ts == ReadyTs(fr, "subtitle")
        k == IF /\ video_ready_ts <= audio_ready_ts
                /\ video_ready_ts <= subtitle_ready_ts
                /\ video_ready_ts # I64_MAX
             THEN "video"
             ELSE IF /\ audio_ready_ts <= video_ready_ts
                     /\ audio_ready_ts <= subtitle_ready_ts
                     /\ audio_ready_ts # I64_MAX
             THEN "audio"
             ELSE IF /\ subtitle_ready_ts <= video_ready_ts
                     /\ subtitle_ready_ts <= audio_ready_ts
                     /\ subtitle_ready_ts # I64_MAX
             THEN "subtitle"
             ELSE "none"
    IN IF k = "none"
       THEN [kind |-> "none", fr |-> fr, frame |-> NoFrame]
       ELSE [kind |-> k, fr |-> [fr EXCEPT ![k] = None],
             frame |-> [kind |-> k, pts |-> fr[k]]]

\* ------------------------------------------------------------ get_next_frame
\* One decoder's poll inside get_next_frame; an earlier error (the `?`) skips it.
\* p is the timestamp of the frame the decoder hands out, fails a hard error.
Poll(s, k, p, fails) ==
    IF s.out # "Ok" \/ ~s.dec[k].present THEN s
    ELSE LET r == IF k = "video" THEN VideoDecoder_decode(s.dec[k], fails)
                  ELSE BaseDecoder_decode(s.dec[k], fails)
             is_ok == ignore_out_of_data_error(r.res)
         IN IF is_ok = "true"
            THEN [s EXCEPT !.dec[k] = r.dec, !.fr[k] = p, !.st[Counter(k)] = @ + 1]
            ELSE IF is_ok = "false"
            THEN [s EXCEPT !.dec[k] = r.dec]
            ELSE [s EXCEPT !.dec[k] = r.dec, !.out = is_ok]

\* get_next_frame: a ready frame if there is one; else poll video, audio and
\* subtitle once each and look again; Err(EAGAIN) if still none is ready.
\* (Each poll's outcome is bound as a value before the next poll reads it.)
get_next_frame(dec, fr, st, p, ek) ==
    LET first == get_ready_frame(fr)
        s0 == [dec |-> dec, fr |-> fr, st |-> st, out |-> "Ok"]
        after_video == {Poll(s0, "video", p["video"], ek = "video")}
        after_audio == {Poll(s1, "audio", p["audio"], ek = "audio") : s1 \in after_video}
        after_subtitle ==
            {Poll(s2, "subtitle", p["subtitle"], ek = "subtitle") : s2 \in after_audio}
        polled ==
            {IF s3.out # "Ok"
             THEN [dec |-> s3.dec, fr |-> s3.fr, st |-> s3.st, out |-> s3.out,
                   frame |-> NoFrame]
             ELSE IF get_ready_frame(s3.fr).kind # "none"
             THEN [dec |-> s3.dec, fr |-> get_ready_frame(s3.fr).fr, st |-> s3.st,
                   out |-> "Frame", frame |-> get_ready_frame(s3.fr).frame]
             ELSE [dec |-> s3.dec, fr |-> s3.fr, st |-> s3.st, out |-> "EAGAIN",
                   frame |-> NoFrame]
             : s3 \in after_subtitle}
    IN IF first.kind # "none"
       THEN [dec |-> dec, fr |-> first.fr, st |-> st, out |-> "Frame", frame |-> first.frame]
       ELSE CHOOSE r \in polled : TRUE

\* the match on get_next_frame's result without the end_of_packet_stream test:
\* what C4 rules out
after_get_next_frame_always_reading(out, eops) ==
    IF out = "Frame" THEN "return_frame"
    ELSE IF needs_data(out) \/ is_eof(out) THEN "read_next_packet"
    ELSE "return_err"

\* process_next_frame, the match on get_next_frame's result
after_get_next_frame(out, eops) ==
    IF out = "Frame" THEN "return_frame"
    ELSE IF needs_data(out) \/ is_eof(out)
    THEN IF eops THEN "return_eos" ELSE "read_next_packet"
    ELSE "return_err"

\* ---------------------------------------------------------- read_next_packet
\* read_next_packet counting every attempt, failed or not: what C10 rules out
read_next_packet_counting_attempts(st, outcome) ==
    [st EXCEPT !.packet_read_total = @ + 1]

\* read_next_packet: the counter moves only when the source read succeeded
read_next_packet(st, outcome) ==
    IF outcome = "Ok" THEN [st EXCEPT !.packet_read_total = @ + 1] ELSE st

\* the match on read_next_packet's result taking every error for end-of-input:
\* what C5 rules out
after_read_next_packet_flushing_on_error(outcome) ==
    IF outcome = "Ok" THEN "dispatch_packet" ELSE "flush_and_continue"

\* the match on read_next_packet's result returning end-of-input as an error:
\* what C6 rules out
after_read_next_packet_returning_eof(outcome) ==
    IF outcome = "Ok" THEN "dispatch_packet" ELSE "return_err"

\* the match on read_next_packet's result going on to dispatch after a failed
\* read: what C31 rules out
after_read_next_packet_dispatching_on_error(outcome) ==
    IF is_eof(outcome) THEN "flush_and_continue" ELSE "dispatch_packet"

\* process_next_frame, the match on read_next_packet's result
after_read_next_packet(outcome) ==
    IF is_eof(outcome) THEN "flush_and_continue"
    ELSE IF outcome = "Ok" THEN "dispatch_packet"
    ELSE "return_err"

\* ------------------------------------------------------------ dispatch_packet
\* dispatch_packet writing to the first decoder the player has, whatever the
\* packet's stream index: what C30 rules out
dispatch_packet_ignoring_stream_index(dec, pkt, eops, keep) ==
    IF eops THEN [res |-> "Ok", dec |-> dec]
    ELSE IF dec["video"].present
    THEN LET w == Decoder_write_packet(dec["video"], pkt, keep)
         IN [res |-> w.res, dec |-> [dec EXCEPT !["video"] = w.dec]]
    ELSE IF dec["audio"].present
    THEN LET w == Decoder_write_packet(dec["audio"], pkt, keep)
         IN [res |-> w.res, dec |-> [dec EXCEPT !["audio"] = w.dec]]
    ELSE IF dec["subtitle"].present
    THEN LET w == Decoder_write_packet(dec["subtitle"], pkt, keep)
         IN [res |-> w.res, dec |-> [dec EXCEPT !["subtitle"] = w.dec]]
    ELSE [res |-> "Ok", dec |-> dec]

\* MediaPlayer::dispatch_packet: the packet is written to the first decoder, in
\* the order video, audio, subtitle, whose stream index is the packet's
dispatch_packet(dec, pkt, eops, keep) ==
    IF eops THEN [res |-> "Ok", dec |-> dec]
    ELSE IF dec["video"].present /\ pkt.stream_index = StreamIndex("video")
    THEN LET w == Decoder_write_packet(dec["video"], pkt, keep)
         IN [res |-> w.res, dec |-> [dec EXCEPT !["video"] = w.dec]]
    ELSE IF dec["audio"].present /\ pkt.stream_index = StreamIndex("audio")
    THEN LET w == Decoder_write_packet(dec["audio"], pkt, keep)
         IN [res |-> w.res, dec |-> [dec EXCEPT !["audio"] = w.dec]]
    ELSE IF dec["subtitle"].present /\ pkt.stream_index = StreamIndex("subtitle")
    THEN LET w == Decoder_write_packet(dec["subtitle"], pkt, keep)
         IN [res |-> w.res, dec |-> [dec EXCEPT !["subtitle"] = w.dec]]
    ELSE [res |-> "Ok", dec |-> dec]

\* --------------------------------------------------------------------- flush
\* MediaPlayer::flush: flush on every decoder the player has
flush(dec) ==
    [k \in Kinds |->
        IF ~dec[k].present THEN dec[k]
        ELSE IF k = "video" THEN VideoDecoder_flush(dec[k])
        ELSE Decoder_flush(dec[k])]

\* MediaPlayer::flush calling the decoders last to first: what C27 rules out
flush_sequence_subtitle_first(dec) ==
    SelectSeq(<<"subtitle", "audio", "video">>, LAMBDA k : dec[k].present)

\* MediaPlayer::flush: the decoders flush is called on, in the order of the calls
flush_sequence(dec) ==
    SelectSeq(<<"video", "audio", "subtitle">>, LAMBDA k : dec[k].present)

\* --------------------------------------------------------------------- build
\* build opening a decoder for every kind, found or not: what C8 rules out
build_decoders_for_all_kinds(found) == Kinds

\* MediaPlayerBuilder::build: the kinds a decoder is opened for, given the
\* kinds find_best_stream found a stream of
build_decoders(found) == found


\* ------------------------------------------------- accelerator configuration
\* enum Accelerator (src/libav-player/src/accelerator.rs)
Accelerators == {"Vaapi", "Vdpau", "Cuda", "Qsv", "Vulkan", "Dxva2", "D3D11", "D3D12",
                 "VideoToolbox"}

\* the cfg!(target_os) values a build can have: DEFAULT_ACCELERATOR_AFFINITY is
\* defined for these three only, so no AcceleratorConfig exists on another OS
Platforms == {WINDOWS, LINUX, MACOS}

\* usize `&` and `|` on flag words
RECURSIVE BitAnd(_, _)
BitAnd(a, b) ==
    IF a = 0 \/ b = 0 THEN 0
    ELSE 2 * BitAnd(a \div 2, b \div 2) + (IF a % 2 = 1 /\ b % 2 = 1 THEN 1 ELSE 0)

RECURSIVE BitOr(_, _)
BitOr(a, b) ==
    IF a = 0 THEN b
    ELSE IF b = 0 THEN a
    ELSE 2 * BitOr(a \div 2, b \div 2) + (IF a % 2 = 1 \/ b % 2 = 1 THEN 1 ELSE 0)

\* Accelerator::platform_flags
platform_flags(a) ==
    CASE a = "Vaapi" -> BitOr(LINUX, WINDOWS)
      [] a = "Vdpau" -> LINUX
      [] a = "Cuda" -> BitOr(LINUX, WINDOWS)
      [] a = "Qsv" -> BitOr(LINUX, WINDOWS)
      [] a = "Vulkan" -> BitOr(LINUX, WINDOWS)
      [] a = "Dxva2" -> WINDOWS
      [] a = "D3D11" -> WINDOWS
      [] a = "D3D12" -> WINDOWS
      [] OTHER -> MACOS

\* DEFAULT_ACCELERATOR_AFFINITY of the target OS (the Windows list names its
\* first two entries Direct3D12, read here as the D3D12 variant of the enum)
DEFAULT_ACCELERATOR_AFFINITY(platform) ==
    CASE platform = LINUX -> <<"Vaapi", "Vdpau", "Cuda", "Vulkan">>
      [] platform = WINDOWS -> <<"D3D12", "D3D12", "Dxva2", "Cuda", "Vaapi">>
      [] OTHER -> <<"VideoToolbox">>

\* Vec::dedup: of every run of consecutive equal elements only the first stays
RECURSIVE dedup(_)
dedup(v) ==
    IF Len(v) <= 1 THEN v
    ELSE LET rest == dedup(Tail(v))
         IN IF Head(v) = Head(rest) THEN rest ELSE <<Head(v)>> \o rest

\* set_accelerators warning as soon as one supplied accelerator is not valid
\* for the platform: what C19 rules out
set_accelerators_warning_on_any_invalid(platform, list) ==
    [affinity |-> dedup(list),
     warn |-> /\ platform # 0
              /\ \E i \in 1..Len(list) :
                    BitAnd(platform_flags(list[i]), platform) = 0]

\* AcceleratorConfig::set_accelerators: the affinity stored and whether the
\* warning is logged
set_accelerators(platform, list) ==
    LET warn_missing_hw_accel ==
            /\ platform # 0
            /\ ~\E i \in 1..Len(list) :
                    BitAnd(platform_flags(list[i]), platform) # 0
    IN [affinity |-> dedup(list), warn |-> warn_missing_hw_accel]

\* the lists a caller can hand to set_accelerators
AcceleratorLists == UNION {[1..n -> Accelerators] : n \in 0..MaxAccelerators}


\* ------------------------------------------------------ decoder construction
\* (src/wgpu-player/src/codec.rs; BaseDecoder also src/libav-player/src/codec/mod.rs)
\* the accelerators decoder construction is explored with
OpenAccelerators == {"Vaapi", "Vdpau", "Cuda"}

\* What the codec and the machine offer for an accelerator:
\*   none                 no hardware config of the codec, no codec variant
\*   native               hardware config, device creation and open succeed
\*   native_no_device     hardware config, device creation fails (unavailable)
\*   native_invalid_data  hardware config and device, open rejects the stream data
\*   variant              codec variant "<name>_<accelerator>", open succeeds
\*   variant_invalid_data codec variant, open rejects the stream data
HwClasses == {"none", "native", "native_no_device", "native_invalid_data",
              "variant", "variant_invalid_data"}

\* find_accelerator_config: the codec lists a hardware config for the accelerator
find_accelerator_config(class) ==
    class \in {"native", "native_no_device", "native_invalid_data"}

\* find_decoder_by_name(format_codec_name_with_accelerator(..)): the variant exists
find_decoder_by_name(class) == class \in {"variant", "variant_invalid_data"}

\* av_hwdevice_ctx_create succeeds
av_hwdevice_ctx_create(class) == class # "native_no_device"

\* avcodec_open2 accepts the stream data on a context set up for the accelerator
avcodec_open2(class) == class \notin {"native_invalid_data", "variant_invalid_data"}

\* failures other than soft accelerator failures, at most one per step
Faults == {"none", "alloc", "device", "params", "open"}

NoVideoDecoder ==
    [exists |-> FALSE, codec |-> "none", accelerator |-> "None", hw_device_ctx |-> FALSE,
     native_open |-> FALSE, is_open |-> FALSE, log |-> <<>>]

\* Decoder::create of BaseDecoder and VideoDecoder: a context for the codec,
\* not open, no accelerator.  log lists the native calls made on the context.
Decoder_create(codec) ==
    [exists |-> TRUE, codec |-> codec, accelerator |-> "None", hw_device_ctx |-> FALSE,
     native_open |-> FALSE, is_open |-> FALSE, log |-> <<"create">>]

\* Decoder::is_open: avcodec_is_open on the context
Decoder_is_open(d) == d.native_open

\* VideoDecoder::accelerator
accelerator(d) == d.accelerator

\* create_accelerated_decoder answering every failure with Ok(None): what C25
\* rules out
create_accelerated_decoder_skipping_on_error(class, target_accelerator, fault) ==
    IF ~find_accelerator_config(class) /\ ~find_decoder_by_name(class)
    THEN [res |-> "None", dec |-> NoVideoDecoder]
    ELSE IF fault = "alloc" THEN [res |-> "None", dec |-> NoVideoDecoder]
    ELSE IF ~find_accelerator_config(class)
    THEN [res |-> "Some", dec |-> Decoder_create("variant")]
    ELSE IF ~av_hwdevice_ctx_create(class)
    THEN [res |-> "device_unavailable", dec |-> NoVideoDecoder]
    ELSE IF fault = "device" THEN [res |-> "None", dec |-> NoVideoDecoder]
    ELSE [res |-> "Some",
          dec |-> [Decoder_create("original") EXCEPT !.hw_device_ctx = TRUE,
                                                     !.accelerator = target_accelerator]]

\* create_accelerated_decoder: Ok(None) ("None"), Ok(Some(decoder)) ("Some") or
\* the error.  Only the hardware-config path records the accelerator.
create_accelerated_decoder(class, target_accelerator, fault) ==
    IF ~find_accelerator_config(class) /\ ~find_decoder_by_name(class)
    THEN [res |-> "None", dec |-> NoVideoDecoder]
    ELSE IF fault = "alloc" THEN [res |-> "alloc_failed", dec |-> NoVideoDecoder]
    ELSE IF ~find_accelerator_config(class)
    THEN [res |-> "Some", dec |-> Decoder_create("variant")]
    ELSE IF ~av_hwdevice_ctx_create(class)
    THEN [res |-> "device_unavailable", dec |-> NoVideoDecoder]
    ELSE IF fault = "device" THEN [res |-> "device_error", dec |-> NoVideoDecoder]
    ELSE [res |-> "Some",
          dec |-> [Decoder_create("original") EXCEPT !.hw_device_ctx = TRUE,
                                                     !.accelerator = target_accelerator]]

\* Whether the fault of a loop turn strikes, that is, whether the call it makes
\* fail is made on this turn: the context allocation and the open whenever the
\* codec supports the accelerator (the open after a device was created), the
\* device creation when the codec has a hardware config and the device is
\* available, the parameter copy when parameters were given.
fault_strikes(class, fault, params) ==
    LET supported == find_accelerator_config(class) \/ find_decoder_by_name(class)
        device_ok == find_accelerator_config(class) => av_hwdevice_ctx_create(class)
    IN CASE fault = "alloc" -> supported
         [] fault = "device" -> find_accelerator_config(class) /\ device_ok
         [] fault = "params" -> supported /\ device_ok /\ params
         [] fault = "open" -> supported /\ device_ok
         [] OTHER -> FALSE

\* Decoder::copy_codec_params, called when codec_params is Some
copy_codec_params(d, params, fault) ==
    IF ~params THEN [res |-> "Ok", dec |-> d]
    ELSE IF fault = "params" THEN [res |-> "params_error", dec |-> d]
    ELSE [res |-> "Ok", dec |-> [d EXCEPT !.log = Append(@, "copy_codec_params")]]

\* Decoder::open of VideoDecoder opening whatever its state: what C17 rules out
VideoDecoder_Decoder_open_unguarded(d, accepts, fault) ==
    IF fault = "open"
    THEN [res |-> "open_error", dec |-> [d EXCEPT !.log = Append(@, "avcodec_open2")]]
    ELSE IF ~accepts
    THEN [res |-> "invalid_data", dec |-> [d EXCEPT !.log = Append(@, "avcodec_open2")]]
    ELSE [res |-> "Ok", dec |-> [d EXCEPT !.log = Append(@, "avcodec_open2"),
                                          !.native_open = TRUE]]

\* Decoder::open of VideoDecoder: panics when is_open(), else avcodec_open2 on
\* the context; the base decoder's is_open field is not touched
VideoDecoder_Decoder_open(d, accepts, fault) ==
    IF Decoder_is_open(d) THEN [res |-> "panic", dec |-> d]
    ELSE IF fault = "open"
    THEN [res |-> "open_error", dec |-> [d EXCEPT !.log = Append(@, "avcodec_open2")]]
    ELSE IF ~accepts
    THEN [res |-> "invalid_data", dec |-> [d EXCEPT !.log = Append(@, "avcodec_open2")]]
    ELSE [res |-> "Ok", dec |-> [d EXCEPT !.log = Append(@, "avcodec_open2"),
                                          !.native_open = TRUE]]

\* Decoder::open of BaseDecoder: panics when the is_open field is set, else
\* avcodec_open2, and the field is set on success
BaseDecoder_Decoder_open(d, accepts, fault) ==
    IF d.is_open THEN [res |-> "panic", dec |-> d]
    ELSE IF fault = "open"
    THEN [res |-> "open_error", dec |-> [d EXCEPT !.log = Append(@, "avcodec_open2")]]
    ELSE IF ~accepts
    THEN [res |-> "invalid_data", dec |-> [d EXCEPT !.log = Append(@, "avcodec_open2")]]
    ELSE [res |-> "Ok", dec |-> [d EXCEPT !.log = Append(@, "avcodec_open2"),
                                          !.native_open = TRUE, !.is_open = TRUE]]

\* the tail of a construction path returning the decoder without opening it:
\* what C16 rules out
copy_params_and_open_without_open(d, params, accepts, fault, type) ==
    LET c == copy_codec_params(d, params, fault)
    IN IF c.res # "Ok" THEN [res |-> c.res, dec |-> NoVideoDecoder]
       ELSE [res |-> "Ok", dec |-> c.dec]

\* the tail of every construction path: copy_codec_params?, open()?, Ok(decoder)
copy_params_and_open(d, params, accepts, fault, type) ==
    LET c == copy_codec_params(d, params, fault)
        o == IF type = "VideoDecoder" THEN VideoDecoder_Decoder_open(c.dec, accepts, fault)
             ELSE BaseDecoder_Decoder_open(c.dec, accepts, fault)
    IN IF c.res # "Ok" THEN [res |-> c.res, dec |-> NoVideoDecoder]
       ELSE IF o.res # "Ok" THEN [res |-> o.res, dec |-> NoVideoDecoder]
       ELSE [res |-> "Ok", dec |-> o.dec]

\* the affinity lists an AcceleratorConfig can hold
Affinities == {dedup(l) : l \in UNION {[1..n -> OpenAccelerators] : n \in 0..MaxAccelerators}}

\* the configuration and the construction part of the state, not in use
ConfigUnused ==
    /\ target_platform = LINUX
    /\ affinity = <<>>
    /\ accelerators = <<>>
    /\ supplied = <<>>
    /\ warned = FALSE

OpenUnused ==
    /\ opening = "none"
    /\ open_pc = "unused"
    /\ hw = [a \in OpenAccelerators |-> "none"]
    /\ codec_params = FALSE
    /\ next_accelerator = 1
    /\ tried = <<>>
    /\ video_decoder = NoVideoDecoder
    /\ open_result = "none"
    /\ faulted = FALSE


\* ---------------------------------------------------------- find_best_stream
\* (src/wgpu-player/src/input.rs)
\* enum MediaType, as far as sources are explored with it
MediaTypes == {"video", "audio", "subtitle", "data"}

\* a stream of the source: its codec type and whether a decoder for its codec
\* is registered
StreamDescriptors == [media_type : MediaTypes, has_decoder : BOOLEAN]

\* the stream lists a source can have, (*ctx).streams[0 .. nb_streams - 1]
StreamLists == UNION {[1..n -> StreamDescriptors] : n \in 0..MaxStreams}

\* `v as i32` on a usize: the low bits, read as a two's complement number
as_i32(v) ==
    LET modulus == 2 * (I32_MAX + 1)
        low == v % modulus
    IN IF low > I32_MAX THEN low - modulus ELSE low

\* preferred_stream_index.map(|v| v as i32).unwrap_or(-1)
wanted_stream_nb(preferred_stream_index) ==
    IF preferred_stream_index = None THEN -1 ELSE as_i32(preferred_stream_index)

\* av_find_best_stream(ctx, type, wanted_stream_nb, -1, &decoder, 0): the
\* values it can return.  A stream is a candidate when it has the type and, for
\* wanted_stream_nb >= 0, that index; a candidate without a decoder is passed
\* over.  The index of a candidate with a decoder is returned (which one, among
\* several, is decided by disposition and bitrate, left open here), else
\* AVERROR_DECODER_NOT_FOUND when a candidate was passed over, else
\* AVERROR_STREAM_NOT_FOUND.
av_find_best_stream(list, type, wanted) ==
    LET candidates == {i \in 0..(Len(list) - 1) :
                          /\ list[i + 1].media_type = type
                          /\ wanted >= 0 => i = wanted}
        decodable == {i \in candidates : list[i + 1].has_decoder}
    IN IF decodable # {} THEN decodable
       ELSE IF candidates # {} THEN {AVERROR_DECODER_NOT_FOUND}
       ELSE {AVERROR_STREAM_NOT_FOUND}

\* error::convert_ff_result: Err(errno) for a negative code, else Ok(code)
convert_ff_result(code) ==
    IF code < 0 THEN [ok |-> FALSE, value |-> code] ELSE [ok |-> TRUE, value |-> code]

\* InputSource::find_best_stream, the match on the converted result of
\* av_find_best_stream: Ok(Some(streams[index])), Ok(None) or Err
find_best_stream(ret) ==
    LET converted == convert_ff_result(ret)
    IN IF converted.ok THEN [tag |-> "Some", index |-> converted.value, errno |-> 0]
       ELSE IF converted.value = AVERROR_STREAM_NOT_FOUND
       THEN [tag |-> "None", index |-> None, errno |-> 0]
       ELSE [tag |-> "Err", index |-> None, errno |-> converted.value]

NoFindResult == [tag |-> "none", index |-> None, errno |-> 0]

\* the find_best_stream part of the state, not in use
FindUnused ==
    /\ ctx_streams = <<>>
    /\ find_request = [media_type |-> "video", preferred_stream_index |-> None]
    /\ find_result = NoFindResult


\* ---------------------------------------------------------- SubtitleDecoder
\* what avcodec_decode_subtitle2 can do with a packet: fail, decode nothing
\* (got_sub_ptr = 0), or decode a subtitle (got_sub_ptr # 0)
SubtitleOutcomes == {"error", "nothing", "subtitle"}

\* SubtitleDecoder::open: the ready slot starts empty
SubtitleDecoder_open == [ready_subtitle |-> None]

\* SubtitleDecoder::write_packet, given what avcodec_decode_subtitle2 did and
\* the subtitle it decoded; debug_assertions tells whether debug_assert! is
\* compiled in. panic: the debug_assert! fired.
SubtitleDecoder_write_packet(d, outcome, subtitle, debug_assertions) ==
    IF outcome = "error"
    THEN [ok |-> FALSE, panic |-> FALSE, decoder |-> d]
    ELSE IF outcome = "subtitle"
    THEN IF debug_assertions /\ d.ready_subtitle # None
         THEN [ok |-> FALSE, panic |-> TRUE, decoder |-> d]
         ELSE [ok |-> TRUE, panic |-> FALSE,
               decoder |-> [d EXCEPT !.ready_subtitle = subtitle]]
    ELSE [ok |-> TRUE, panic |-> FALSE, decoder |-> d]

\* SubtitleDecoder::decode: take() the slot; EAGAIN when it was empty, else
\* the subtitle is moved into the caller's frame
SubtitleDecoder_decode(d, frame) ==
    IF d.ready_subtitle = None
    THEN [result |-> "EAGAIN", decoder |-> d, frame |-> frame]
    ELSE [result |-> "Ok",
          decoder |-> [d EXCEPT !.ready_subtitle = None],
          frame |-> d.ready_subtitle]

\* no SubtitleDecoder under study
NoSubtitleDecoder ==
    [decoder |-> SubtitleDecoder_open, debug_assertions |-> FALSE, frame |-> 0,
     produced |-> 0, returned |-> [i \in 1..MaxSubtitles |-> 0],
     last_call |-> "none", last_result |-> "none", panicked |-> FALSE]

\* ------------------------------------------- MediaPlayerBuilder::build, keep_streams
\* the two crates with a MediaPlayerBuilder
Players == {"libav-player", "wgpu-player"}

\* the indices of the Some among the selected streams
SelectedStreams(video_stream, audio_stream, subtitle_stream) ==
    {video_stream, audio_stream, subtitle_stream} \ {None}

\* libav-player, the closure handed to keep_streams: Some(stream.index) is
\* compared with the Option of each selected stream's index (Some(i) == None
\* is false)
libav_keep_stream(index, video_stream, audio_stream, subtitle_stream) ==
    \/ (video_stream # None /\ index = video_stream)
    \/ (audio_stream # None /\ index = audio_stream)
    \/ (subtitle_stream # None /\ index = subtitle_stream)

\* wgpu-player, the closure handed to keep_streams
wgpu_keep_stream(index, video_stream, audio_stream, subtitle_stream) ==
    /\ (video_stream # None /\ index = video_stream)
    /\ (audio_stream # None /\ index = audio_stream)
    /\ (subtitle_stream # None /\ index = subtitle_stream)

\* the closure of the given crate's build
keep_stream(player, index, video_stream, audio_stream, subtitle_stream) ==
    IF player = "libav-player"
    THEN libav_keep_stream(index, video_stream, audio_stream, subtitle_stream)
    ELSE wgpu_keep_stream(index, video_stream, audio_stream, subtitle_stream)

\* the streams of the given kind in a list of media types, by index from 0
StreamsOfType(types, media_type) ==
    {i \in 0..(Len(types) - 1) : types[i + 1] = media_type}

NoBuilder ==
    [player |-> "libav-player", streams |-> <<>>, video_stream |-> None,
     audio_stream |-> None, subtitle_stream |-> None, built |-> FALSE, kept |-> {}]

\* ------------------------------------- references to a hardware device context
\* The references to the device context that create_accelerated_decoder
\* leaves behind: local is the one av_hwdevice_ctx_create stored in the local
\* hw_device (never passed to av_buffer_unref), bound the one av_buffer_ref
\* made for ctx.hw_device_ctx.  Both exist once the codec has a hardware
\* config, the context was allocated and the device was created.
hw_device_references(class, fault) ==
    LET created == /\ find_accelerator_config(class)
                   /\ fault # "alloc"
                   /\ av_hwdevice_ctx_create(class)
                   /\ fault # "device"
    IN [local |-> created, bound |-> created]

\* BaseDecoder::drop: avcodec_free_context releases what the context holds,
\* its hw_device_ctx reference among it; nothing else is released
BaseDecoder_drop(refs) == [refs EXCEPT !.bound = FALSE]

\* the number of references in existence
ReferenceCount(refs) ==
    (IF refs.local THEN 1 ELSE 0) + (IF refs.bound THEN 1 ELSE 0)

NoHwDevice ==
    [class |-> "none", target |-> "Vaapi", codec_params |-> FALSE, phase |-> "unused",
     refs |-> [local |-> FALSE, bound |-> FALSE], result |-> "none"]

\* the components checked on their own, not in use
ComponentsUnused ==
    /\ subtitle_decoder = NoSubtitleDecoder
    /\ builder = NoBuilder
    /\ hw_device = NoHwDevice


\* ------------------------------------------------------------- play / pause
\* Result<(), error>: Ok(()) or Err(err) with err.errno()
Ok == [ok |-> TRUE, errno |-> 0]
Err(errno) == [ok |-> FALSE, errno |-> errno]

\* the errnos a source failure is explored with
Errnos == (ENOSYS - 1)..(ENOSYS + 1)

\* what source.play() / source.pause() can return
SourceResults == {Ok} \cup {Err(errno) : errno \in Errnos}

\* play handing on whatever the source returned: what C20 rules out
play_returning_source_result(source_result) == source_result

\* MediaPlayer::play, given the result of source.play()
play(source_result) ==
    IF ~source_result.ok
    THEN IF source_result.errno = ENOSYS THEN Ok ELSE Err(source_result.errno)
    ELSE Ok

\* MediaPlayer::pause, given the result of source.pause()
pause(source_result) ==
    IF ~source_result.ok
    THEN IF source_result.errno = ENOSYS THEN Ok ELSE Err(source_result.errno)
    ELSE Ok

\* MediaPlayer::seek, given the result of source.seek(position): the error,
\* if any, is converted and handed on
seek(source_result) == source_result

NoTransport == [op |-> "none", source |-> Ok, returned |-> Ok]

\* ================================================================== actions
Init ==
    /\ pc = "new"
    /\ streams \in SUBSET Kinds
    /\ decoder = [k \in Kinds |-> NoDecoder]
    /\ frame_ready = [k \in Kinds |-> None]
    /\ end_of_packet_stream = FALSE
    /\ packet = NoPacket
    /\ statistics = [num_video_frames_decoded |-> 0,
                     num_audio_frames_decoded |-> 0,
                     num_subtitle_frames_decoded |-> 0,
                     packet_read_total |-> 0,
                     frames_decoded_total |-> 0]
    /\ result = "none"
    /\ last_frame = NoFrame
    /\ delivered = [k \in Kinds |-> 0]
    /\ ended = FALSE
    /\ flush_calls = [k \in Kinds |-> 0]
    /\ flush_order = <<>>
    /\ source_pos = 0
    /\ source_frames = 0
    /\ source_eof = FALSE
    /\ reads_ok = 0
    /\ multi_frame_packet = FALSE
    /\ transport = NoTransport
    /\ ConfigUnused
    /\ OpenUnused
    /\ FindUnused
    /\ ComponentsUnused

\* MediaPlayerBuilder::build: NoAvailableStreams when no stream was found, the
\* error of a stream lookup or of a decoder that does not open (opened = FALSE),
\* else one decoder per stream found and the initial player state.
Build ==
    /\ pc = "new"
    /\ \E opened \in BOOLEAN :
         IF streams = {} \/ ~opened
         THEN /\ pc' = "failed"
              /\ decoder' = decoder
         ELSE /\ pc' = "idle"
              /\ decoder' = [k \in Kinds |->
                    IF k \in build_decoders(streams)
                    THEN [present |-> TRUE, avail |-> 0, held |-> 0, draining |-> FALSE]
                    ELSE NoDecoder]
    /\ UNCHANGED <<streams, frame_ready, end_of_packet_stream, packet, statistics,
                   result, last_frame, delivered, ended, flush_calls, flush_order,
                   source_pos, source_frames, source_eof,
                   reads_ok, multi_frame_packet, transport,
                   config_vars, open_vars, find_vars, component_vars>>

\* the caller invokes process_next_frame
ProcessNextFrame ==
    /\ pc = "idle"
    /\ pc' = "get_next_frame"
    /\ result' = "none"
    /\ transport' = NoTransport
    /\ UNCHANGED <<streams, decoder, frame_ready, end_of_packet_stream, packet,
                   statistics, last_frame, delivered, ended, flush_calls, flush_order,
                   source_pos, source_frames, source_eof,
                   reads_ok, multi_frame_packet,
                   config_vars, open_vars, find_vars, component_vars>>

\* The scratch frame of kind k (frame_video / frame_audio / frame_subtitle):
\* every successful decode of the k decoder writes into it and counts in
\* num_<k>_frames_decoded, so it holds the frame the decoder produced last,
\* named by its place in the decoder's output.
scratch_frame(st, k) == st[Counter(k)]

\* the decoder of kind k is polled by this get_next_frame and has a frame to decode
WillDecode(k) ==
    /\ get_ready_frame(frame_ready).kind = "none"
    /\ decoder[k].present
    /\ decoder[k].avail > 0

\* the timestamps the frame decoded from the decoder of kind k can carry
DecodedPts(k) == IF WillDecode(k) THEN Pts ELSE {0}

\* process_next_frame: get_next_frame and the match on its result.  The *_pts are
\* the timestamps of the frames decoded, ek the decoder (if any) whose decode fails hard.
GetNextFrame ==
    /\ pc = "get_next_frame"
    /\ \E video_pts \in DecodedPts("video"), audio_pts \in DecodedPts("audio"),
          subtitle_pts \in DecodedPts("subtitle"),
          ek \in {"none"} \cup {k \in Kinds : WillDecode(k)} :
         /\ \E r \in {get_next_frame(decoder, frame_ready, statistics,
                                     [video |-> video_pts, audio |-> audio_pts,
                                      subtitle |-> subtitle_pts], ek)} :
            LET nxt == after_get_next_frame(r.out, end_of_packet_stream)
            IN /\ decoder' = r.dec
               /\ frame_ready' = r.fr
               /\ ended' = (ended \/ nxt = "return_eos")
               /\ IF nxt = "return_frame"
                  THEN /\ pc' = "idle"
                       /\ result' = "Frame"
                       /\ statistics' = [r.st EXCEPT !.frames_decoded_total = @ + 1]
                       /\ last_frame' = r.frame
                       /\ delivered' = [delivered EXCEPT ![r.frame.kind] =
                                           scratch_frame(r.st, r.frame.kind)]
                  ELSE /\ statistics' = r.st
                       /\ last_frame' = last_frame
                       /\ delivered' = delivered
                       /\ IF nxt = "return_eos"
                          THEN pc' = "idle" /\ result' = "EndOfStream"
                          ELSE IF nxt = "read_next_packet"
                          THEN pc' = "read_next_packet" /\ result' = result
                          ELSE pc' = "idle" /\ result' = "Err_" \o r.out
    /\ UNCHANGED <<streams, end_of_packet_stream, packet, flush_calls, flush_order,
                   source_pos, source_frames, source_eof, reads_ok, multi_frame_packet, transport,
                   config_vars, open_vars, find_vars, component_vars>>

\* process_next_frame: read_next_packet and the match on its result.  The source
\* yields a packet, reports end-of-input (again and again once reached) or fails.
ReadNextPacket ==
    /\ pc = "read_next_packet"
    /\ \E outcome \in {"Ok", "EOF", "OTHER"} :
         /\ outcome # "EOF" => ~source_eof /\ source_pos < MaxPackets
         /\ source_pos' = IF outcome = "EOF" THEN source_pos ELSE source_pos + 1
         /\ source_eof' = (source_eof \/ outcome = "EOF")
         /\ reads_ok' = IF outcome = "Ok" THEN reads_ok + 1 ELSE reads_ok
         /\ statistics' = read_next_packet(statistics, outcome)
         /\ IF outcome = "Ok"
            THEN \E si \in 0..DataStreamIndex, n \in 0..(MaxFrames - source_frames),
                    bad \in BOOLEAN :
                   /\ bad => n = 0
                   /\ packet' = [stream_index |-> si, frames |-> n, bad |-> bad]
                   /\ source_frames' = source_frames + n
                   /\ multi_frame_packet' = (multi_frame_packet \/ n > 1)
            ELSE UNCHANGED <<packet, source_frames, multi_frame_packet>>
         /\ LET nxt == after_read_next_packet(outcome)
            IN IF nxt = "flush_and_continue"
               THEN /\ end_of_packet_stream' = TRUE
                    /\ decoder' = flush(decoder)
                    /\ flush_calls' = [k \in Kinds |->
                          IF decoder[k].present THEN Min(flush_calls[k] + 1, 2)
                          ELSE flush_calls[k]]
                    /\ flush_order' = flush_order \o
                          SelectSeq(flush_sequence(decoder), LAMBDA k : flush_calls[k] < 2)
                    /\ pc' = "get_next_frame"
                    /\ result' = result
               ELSE /\ UNCHANGED <<end_of_packet_stream, decoder, flush_calls, flush_order>>
                    /\ IF nxt = "dispatch_packet"
                       THEN pc' = "dispatch_packet" /\ result' = result
                       ELSE pc' = "idle" /\ result' = "Err_" \o outcome
    /\ UNCHANGED <<streams, frame_ready, last_frame, delivered, ended, transport,
                   config_vars, open_vars, find_vars, component_vars>>

\* process_next_frame: dispatch_packet and the `?` on its result.  keep is the
\* number of frames the codec keeps back.  The packet is not looked at again
\* (read_next_packet resets it before the next read), so it is forgotten here.
DispatchPacket ==
    /\ pc = "dispatch_packet"
    /\ \E keep \in 0..MaxDelay :
         LET r == dispatch_packet(decoder, packet, end_of_packet_stream, keep)
         IN /\ decoder' = r.dec
            /\ IF r.res = "Ok"
               THEN pc' = "get_next_frame" /\ result' = result
               ELSE pc' = "idle" /\ result' = "Err_" \o r.res
    /\ packet' = NoPacket
    /\ UNCHANGED <<streams, frame_ready, end_of_packet_stream, statistics,
                   last_frame, delivered, ended, flush_calls, flush_order,
                   source_pos, source_frames, source_eof, reads_ok,
                   multi_frame_packet, transport,
                   config_vars, open_vars, find_vars, component_vars>>

Next ==
    \/ Build
    \/ ProcessNextFrame
    \/ GetNextFrame
    \/ ReadNextPacket
    \/ DispatchPacket

Spec == Init /\ [][Next]_vars

\* the caller keeps calling and every started step completes
FairSpec == Spec /\ WF_vars(Next)


\* ------------------------------------------- the player with play and pause
\* the caller invokes play between two process_next_frame calls
Play ==
    /\ pc = "idle"
    /\ \E source_result \in SourceResults :
         transport' = [op |-> "play", source |-> source_result,
                       returned |-> play(source_result)]
    /\ UNCHANGED <<pc, streams, decoder, frame_ready, end_of_packet_stream, packet,
                   statistics, result, last_frame, delivered, ended, flush_calls, flush_order,
                   source_pos, source_frames,
                   source_eof, reads_ok, multi_frame_packet,
                   config_vars, open_vars, find_vars, component_vars>>

\* pause stopping the player's reading as well: what C21 rules out
Pause_ending_packet_stream ==
    /\ pc = "idle"
    /\ \E source_result \in SourceResults :
         transport' = [op |-> "pause", source |-> source_result,
                       returned |-> pause(source_result)]
    /\ end_of_packet_stream' = TRUE
    /\ UNCHANGED <<pc, streams, decoder, frame_ready, packet,
                   statistics, result, last_frame, delivered, ended, flush_calls, flush_order,
                   source_pos, source_frames,
                   source_eof, reads_ok, multi_frame_packet,
                   config_vars, open_vars, find_vars, component_vars>>

\* the caller invokes pause between two process_next_frame calls
Pause ==
    /\ pc = "idle"
    /\ \E source_result \in SourceResults :
         transport' = [op |-> "pause", source |-> source_result,
                       returned |-> pause(source_result)]
    /\ UNCHANGED <<pc, streams, decoder, frame_ready, end_of_packet_stream, packet,
                   statistics, result, last_frame, delivered, ended, flush_calls, flush_order,
                   source_pos, source_frames,
                   source_eof, reads_ok, multi_frame_packet,
                   config_vars, open_vars, find_vars, component_vars>>

TransportNext ==
    \/ Build
    \/ ProcessNextFrame
    \/ GetNextFrame
    \/ ReadNextPacket
    \/ DispatchPacket
    \/ Play
    \/ Pause

TransportSpec == Init /\ [][TransportNext]_vars


\* ------------------------------------------------------ the player with seek
\* what source.seek(position) is explored with: success, and the failure that
\* play and pause would swallow
SeekResults == {Ok, Err(ENOSYS)}

\* seek starting the reading over: what C38 rules out
Seek_resetting_end_of_packet_stream ==
    /\ pc = "idle"
    /\ \E source_result \in SeekResults :
         /\ transport' = [op |-> "seek", source |-> source_result,
                          returned |-> seek(source_result)]
         /\ source_eof' = (source_eof /\ ~source_result.ok)
         /\ end_of_packet_stream' = (end_of_packet_stream /\ ~source_result.ok)
    /\ UNCHANGED <<pc, streams, decoder, frame_ready, packet,
                   statistics, result, last_frame, delivered, ended, flush_calls, flush_order,
                   source_pos, source_frames, reads_ok, multi_frame_packet,
                   config_vars, open_vars, find_vars, component_vars>>

\* the caller invokes seek(position) between two process_next_frame calls.  A
\* source that accepts the seek is no longer at end-of-input: it can yield the
\* packets left to it (source_pos < MaxPackets) from the new position.
Seek ==
    /\ pc = "idle"
    /\ \E source_result \in SeekResults :
         /\ transport' = [op |-> "seek", source |-> source_result,
                          returned |-> seek(source_result)]
         /\ source_eof' = (source_eof /\ ~source_result.ok)
    /\ UNCHANGED <<pc, streams, decoder, frame_ready, end_of_packet_stream, packet,
                   statistics, result, last_frame, delivered, ended, flush_calls, flush_order,
                   source_pos, source_frames, reads_ok, multi_frame_packet,
                   config_vars, open_vars, find_vars, component_vars>>

SeekNext ==
    \/ Build
    \/ ProcessNextFrame
    \/ GetNextFrame
    \/ ReadNextPacket
    \/ DispatchPacket
    \/ Seek

SeekSpec == Init /\ [][SeekNext]_vars


\* ------------------------------------- the player on a subtitle-only source
\* a source whose only stream is a subtitle stream
SubtitleInit == Init /\ streams = {"subtitle"}

\* get_next_frame where no decode fails hard
SubtitleGetNextFrame == GetNextFrame /\ result' # "Err_OTHER"

\* read_next_packet where the source does not fail and a packet read is a
\* packet of the subtitle stream that the codec accepts and that decodes to one
\* subtitle or to none
SubtitleReadNextPacket ==
    /\ ReadNextPacket
    /\ result' # "Err_OTHER"
    /\ reads_ok' # reads_ok =>
          /\ packet'.stream_index = StreamIndex("subtitle")
          /\ ~packet'.bad
          /\ packet'.frames <= 1

SubtitleNext ==
    \/ Build
    \/ ProcessNextFrame
    \/ SubtitleGetNextFrame
    \/ SubtitleReadNextPacket
    \/ DispatchPacket

SubtitleSpec == SubtitleInit /\ [][SubtitleNext]_vars


\* ------------------------------------------------- AcceleratorConfig alone
\* the player part of the state, not in use
PlayerUnused ==
    /\ pc = "new"
    /\ streams = {}
    /\ decoder = [k \in Kinds |-> NoDecoder]
    /\ frame_ready = [k \in Kinds |-> None]
    /\ end_of_packet_stream = FALSE
    /\ packet = NoPacket
    /\ statistics = [num_video_frames_decoded |-> 0,
                     num_audio_frames_decoded |-> 0,
                     num_subtitle_frames_decoded |-> 0,
                     packet_read_total |-> 0,
                     frames_decoded_total |-> 0]
    /\ result = "none"
    /\ last_frame = NoFrame
    /\ delivered = [k \in Kinds |-> 0]
    /\ ended = FALSE
    /\ flush_calls = [k \in Kinds |-> 0]
    /\ flush_order = <<>>
    /\ source_pos = 0
    /\ source_frames = 0
    /\ source_eof = FALSE
    /\ reads_ok = 0
    /\ multi_frame_packet = FALSE
    /\ transport = NoTransport

player_vars == <<pc, streams, decoder, frame_ready, end_of_packet_stream, packet,
                 statistics, result, last_frame, delivered, ended, flush_calls, flush_order,
                 source_pos, source_frames,
                 source_eof, reads_ok, multi_frame_packet, transport>>

\* AcceleratorConfig::default on each target OS, and the list a caller is
\* about to replace the default with
ConfigInit ==
    /\ PlayerUnused
    /\ target_platform \in Platforms
    /\ accelerators \in AcceleratorLists
    /\ supplied = DEFAULT_ACCELERATOR_AFFINITY(target_platform)
    /\ affinity = set_accelerators(target_platform, supplied).affinity
    /\ warned = set_accelerators(target_platform, supplied).warn
    /\ OpenUnused
    /\ FindUnused
    /\ ComponentsUnused

\* the caller invokes set_accelerators(accelerators)
SetAccelerators ==
    /\ \E r \in {set_accelerators(target_platform, accelerators)} :
         /\ supplied' = accelerators
         /\ affinity' = r.affinity
         /\ warned' = r.warn
    /\ UNCHANGED <<target_platform, accelerators, player_vars, open_vars, find_vars,
                   component_vars>>

ConfigNext == SetAccelerators

ConfigSpec == ConfigInit /\ [][ConfigNext]_vars


\* ------------------------------------------------------ decoder construction
\* VideoDecoder::open(codec, codec_params, accelerator_config) or
\* BaseDecoder::open(codec, codec_params) is called
OpenInit ==
    /\ PlayerUnused
    /\ target_platform = LINUX
    /\ warned = FALSE
    /\ opening \in {"VideoDecoder", "BaseDecoder"}
    /\ IF opening = "VideoDecoder"
       THEN /\ affinity \in Affinities
            /\ hw \in [OpenAccelerators -> HwClasses]
       ELSE /\ affinity = <<>>
            /\ hw = [a \in OpenAccelerators |-> "none"]
    /\ accelerators = affinity
    /\ supplied = affinity
    /\ codec_params \in BOOLEAN
    /\ open_pc = "open"
    /\ next_accelerator = 1
    /\ tried = <<>>
    /\ video_decoder = NoVideoDecoder
    /\ open_result = "none"
    /\ faulted = FALSE
    /\ FindUnused
    /\ ComponentsUnused

\* VideoDecoder::open, one turn of the loop over accelerators()
TryAccelerator ==
    /\ open_pc = "open"
    /\ opening = "VideoDecoder"
    /\ next_accelerator <= Len(affinity)
    /\ \E fault \in Faults :
         LET target == affinity[next_accelerator]
             created == create_accelerated_decoder(hw[target], target, fault)
             opened == copy_params_and_open(created.dec, codec_params,
                                            avcodec_open2(hw[target]), fault, opening)
         IN /\ tried' = Append(tried, target)
            /\ IF created.res = "None"
               THEN /\ next_accelerator' = next_accelerator + 1
                    /\ UNCHANGED <<open_pc, video_decoder, open_result>>
               ELSE /\ open_pc' = "returned"
                    /\ next_accelerator' = next_accelerator
                    /\ IF created.res # "Some"
                       THEN /\ open_result' = created.res
                            /\ video_decoder' = NoVideoDecoder
                       ELSE /\ open_result' = opened.res
                            /\ video_decoder' = opened.dec
            /\ faulted' = fault_strikes(hw[target], fault, codec_params)
    /\ UNCHANGED <<opening, hw, codec_params, player_vars, config_vars, find_vars, component_vars>>

\* VideoDecoder::open after the loop: the software decoder of the original codec
SoftwareFallback ==
    /\ open_pc = "open"
    /\ opening = "VideoDecoder"
    /\ next_accelerator > Len(affinity)
    /\ \E fault \in Faults \ {"device"} :
         LET opened == IF fault = "alloc" THEN [res |-> "alloc_failed", dec |-> NoVideoDecoder]
                       ELSE copy_params_and_open(Decoder_create("original"), codec_params,
                                                 TRUE, fault, opening)
         IN /\ open_result' = opened.res
            /\ video_decoder' = opened.dec
            /\ faulted' = (opened.res # "Ok")
    /\ open_pc' = "returned"
    /\ UNCHANGED <<opening, hw, codec_params, next_accelerator, tried, player_vars,
                   config_vars, find_vars, component_vars>>

\* BaseDecoder::open: create?, copy_codec_params?, open()?
BaseDecoderOpen ==
    /\ open_pc = "open"
    /\ opening = "BaseDecoder"
    /\ \E fault \in Faults \ {"device"} :
         LET opened == IF fault = "alloc" THEN [res |-> "alloc_failed", dec |-> NoVideoDecoder]
                       ELSE copy_params_and_open(Decoder_create("original"), codec_params,
                                                 TRUE, fault, opening)
         IN /\ open_result' = opened.res
            /\ video_decoder' = opened.dec
            /\ faulted' = (opened.res # "Ok")
    /\ open_pc' = "returned"
    /\ UNCHANGED <<opening, hw, codec_params, next_accelerator, tried, player_vars,
                   config_vars, find_vars, component_vars>>

\* the holder of a returned decoder calls Decoder::open on it
OpenAgain ==
    /\ open_pc = "returned"
    /\ open_result = "Ok"
    /\ \E fault \in {"none", "open"} :
         LET o == IF opening = "VideoDecoder"
                  THEN VideoDecoder_Decoder_open(video_decoder, TRUE, fault)
                  ELSE BaseDecoder_Decoder_open(video_decoder, TRUE, fault)
         IN /\ video_decoder' = o.dec
            /\ open_pc' = IF o.res = "panic" THEN "panicked" ELSE "returned"
            /\ open_result' = IF o.res = "panic" THEN open_result ELSE o.res
    /\ UNCHANGED <<opening, hw, codec_params, next_accelerator, tried, faulted,
                   player_vars, config_vars, find_vars, component_vars>>

OpenNext ==
    \/ TryAccelerator
    \/ SoftwareFallback
    \/ BaseDecoderOpen
    \/ OpenAgain

OpenSpec == OpenInit /\ [][OpenNext]_vars


\* ------------------------------------------------- InputSource::find_best_stream
\* an opened source and the call a caller is about to make on it
FindInit ==
    /\ PlayerUnused
    /\ ConfigUnused
    /\ OpenUnused
    /\ ComponentsUnused
    /\ ctx_streams \in StreamLists
    /\ find_request \in [media_type : MediaTypes,
                          preferred_stream_index : {None} \cup 0..USIZE_MAX]
    /\ find_result = NoFindResult

\* the caller invokes find_best_stream(media_type, preferred_stream_index)
FindBestStream ==
    /\ \E ret \in av_find_best_stream(ctx_streams, find_request.media_type,
                                       wanted_stream_nb(find_request.preferred_stream_index)) :
         find_result' = find_best_stream(ret)
    /\ UNCHANGED <<ctx_streams, find_request, player_vars, config_vars, open_vars,
                   component_vars>>

FindNext == FindBestStream

FindSpec == FindInit /\ [][FindNext]_vars


\* ---------------------------------------------------------- SubtitleDecoder
\* a freshly opened SubtitleDecoder in a debug or a release build, and the
\* frame its caller will decode into (0: blank)
SubtitleDecoderInit ==
    /\ PlayerUnused
    /\ ConfigUnused
    /\ OpenUnused
    /\ FindUnused
    /\ subtitle_decoder \in
          {[NoSubtitleDecoder EXCEPT !.debug_assertions = b] : b \in BOOLEAN}
    /\ builder = NoBuilder
    /\ hw_device = NoHwDevice

\* the caller hands a packet to write_packet; the subtitles that come out of
\* avcodec_decode_subtitle2 are numbered 1, 2, ... in the order they are made
SubtitleWritePacket ==
    /\ ~subtitle_decoder.panicked
    /\ \E outcome \in SubtitleOutcomes :
         /\ outcome = "subtitle" => subtitle_decoder.produced < MaxSubtitles
         /\ LET made == IF outcome = "subtitle" THEN subtitle_decoder.produced + 1
                         ELSE subtitle_decoder.produced
                r == SubtitleDecoder_write_packet(subtitle_decoder.decoder, outcome, made,
                                                  subtitle_decoder.debug_assertions)
            IN subtitle_decoder' =
                  [subtitle_decoder EXCEPT
                      !.decoder = r.decoder,
                      !.produced = made,
                      !.last_call = "write_packet",
                      !.last_result = IF r.panic THEN "panic"
                                      ELSE IF r.ok THEN "Ok" ELSE "Err",
                      !.panicked = r.panic]
    /\ UNCHANGED <<player_vars, config_vars, open_vars, find_vars, builder, hw_device>>

\* the caller invokes decode(frame)
SubtitleDecode ==
    /\ ~subtitle_decoder.panicked
    /\ LET r == SubtitleDecoder_decode(subtitle_decoder.decoder, subtitle_decoder.frame)
       IN subtitle_decoder' =
             [subtitle_decoder EXCEPT
                 !.decoder = r.decoder,
                 !.frame = r.frame,
                 !.returned = IF r.result = "Ok"
                              THEN [@ EXCEPT ![r.frame] = Min(@ + 1, 2)]
                              ELSE @,
                 !.last_call = "decode",
                 !.last_result = r.result]
    /\ UNCHANGED <<player_vars, config_vars, open_vars, find_vars, builder, hw_device>>

SubtitleDecoderNext == SubtitleWritePacket \/ SubtitleDecode

SubtitleDecoderSpec == SubtitleDecoderInit /\ [][SubtitleDecoderNext]_vars


\* ------------------------------------------- MediaPlayerBuilder::build, keep_streams
\* a builder of either crate on a source with streams of some media types, and
\* what the three find_best_stream calls of build will return: for each kind
\* None or a stream of that kind, not None for all three (build would return
\* NoAvailableStreams before keep_streams)
BuilderInit ==
    /\ PlayerUnused
    /\ ConfigUnused
    /\ OpenUnused
    /\ FindUnused
    /\ subtitle_decoder = NoSubtitleDecoder
    /\ hw_device = NoHwDevice
    /\ \E n \in 1..MaxSourceStreams :
         \E types \in [1..n -> MediaTypes], player \in Players :
            \E video_stream \in {None} \cup StreamsOfType(types, "video"),
               audio_stream \in {None} \cup StreamsOfType(types, "audio"),
               subtitle_stream \in {None} \cup StreamsOfType(types, "subtitle") :
               /\ SelectedStreams(video_stream, audio_stream, subtitle_stream) # {}
               /\ builder = [player |-> player, streams |-> types,
                             video_stream |-> video_stream,
                             audio_stream |-> audio_stream,
                             subtitle_stream |-> subtitle_stream,
                             built |-> FALSE, kept |-> {}]

\* build reaches keep_streams: kept are the streams its closure holds for
BuilderBuild ==
    /\ ~builder.built
    /\ builder' = [builder EXCEPT
          !.built = TRUE,
          !.kept = {i \in 0..(Len(builder.streams) - 1) :
                      keep_stream(builder.player, i, builder.video_stream,
                                  builder.audio_stream, builder.subtitle_stream)}]
    /\ UNCHANGED <<player_vars, config_vars, open_vars, find_vars, subtitle_decoder,
                   hw_device>>

BuilderNext == BuilderBuild

BuilderSpec == BuilderInit /\ [][BuilderNext]_vars


\* ------------------------------------- references to a hardware device context
\* VideoDecoder::open is about to try one accelerator, for a codec and a
\* machine of some class, with or without codec parameters
DeviceInit ==
    /\ PlayerUnused
    /\ ConfigUnused
    /\ OpenUnused
    /\ FindUnused
    /\ subtitle_decoder = NoSubtitleDecoder
    /\ builder = NoBuilder
    /\ \E class \in HwClasses, target \in OpenAccelerators, params \in BOOLEAN :
         hw_device = [NoHwDevice EXCEPT !.class = class, !.target = target,
                                        !.codec_params = params, !.phase = "open"]

\* one turn of the loop of VideoDecoder::open: create_accelerated_decoder,
\* then copy_codec_params and open on the decoder it returned.  A decoder that
\* fails one of the two is dropped by the `?` that returns the error.
DeviceTryAccelerator ==
    /\ hw_device.phase = "open"
    /\ \E fault \in Faults :
         LET created == create_accelerated_decoder(hw_device.class, hw_device.target, fault)
             refs == hw_device_references(hw_device.class, fault)
             opened == copy_params_and_open(created.dec, hw_device.codec_params,
                                            avcodec_open2(hw_device.class), fault,
                                            "VideoDecoder")
         IN hw_device' =
               IF created.res # "Some"
               THEN [hw_device EXCEPT !.phase = "failed", !.refs = refs,
                                      !.result = created.res]
               ELSE IF opened.res # "Ok"
               THEN [hw_device EXCEPT !.phase = "failed", !.refs = BaseDecoder_drop(refs),
                                      !.result = opened.res]
               ELSE [hw_device EXCEPT !.phase = "constructed", !.refs = refs,
                                      !.result = "Ok"]
    /\ UNCHANGED <<player_vars, config_vars, open_vars, find_vars, subtitle_decoder,
                   builder>>

\* the holder of the decoder drops it
DeviceDropDecoder ==
    /\ hw_device.phase = "constructed"
    /\ hw_device' = [hw_device EXCEPT !.phase = "destroyed",
                                      !.refs = BaseDecoder_drop(hw_device.refs)]
    /\ UNCHANGED <<player_vars, config_vars, open_vars, find_vars, subtitle_decoder,
                   builder>>

DeviceNext == DeviceTryAccelerator \/ DeviceDropDecoder

DeviceSpec == DeviceInit /\ [][DeviceNext]_vars


\* ================================================================== claims
Rank(k) == CASE k = "video" -> 1 [] k = "audio" -> 2 [] OTHER -> 3

AnyReady(fr) == \E k \in Kinds : fr[k] # None

\* the ready stream with the smallest timestamp, ties by video, audio, subtitle
Earliest(fr) ==
    CHOOSE k \in Kinds :
        /\ fr[k] # None
        /\ \A j \in Kinds \ {k} :
              fr[j] # None => \/ fr[k] < fr[j]
                              \/ fr[k] = fr[j] /\ Rank(k) < Rank(j)

DecodedSum ==
    statistics.num_video_frames_decoded + statistics.num_audio_frames_decoded
        + statistics.num_subtitle_frames_decoded

\* C1: whenever a stream has a ready frame when get_next_frame runs, the call
\* returns the frame of the ready stream with the smallest timestamp (ties by
\* video, audio, subtitle), clears exactly that stream's marker and leaves the
\* other markers and the decoders alone.
C1_ReadyFrameReturned ==
    [][(pc = "get_next_frame" /\ AnyReady(frame_ready)) =>
          LET k == Earliest(frame_ready)
          IN /\ result' = "Frame"
             /\ last_frame' = [kind |-> k, pts |-> frame_ready[k]]
             /\ frame_ready' = [frame_ready EXCEPT ![k] = None]
             /\ decoder' = decoder]_vars

\* C2 as stated, for two frames of different streams delivered one after the
\* other: the later one's timestamp is not smaller, and frames of equal
\* timestamp come in the order video, audio, subtitle.
C2_TimestampsNonDecreasing ==
    [][(/\ statistics'.frames_decoded_total # statistics.frames_decoded_total
        /\ last_frame.kind # "none"
        /\ last_frame.kind # last_frame'.kind) =>
          \/ last_frame.pts < last_frame'.pts
          \/ /\ last_frame.pts = last_frame'.pts
             /\ Rank(last_frame.kind) < Rank(last_frame'.kind)]_vars

\* C2: a delivered frame has the smallest timestamp among the frames
\* ready at its delivery; what stays ready is later, or equal and of lower priority.
C2_EarliestReadyDelivered ==
    result = "Frame" =>
        \A j \in Kinds :
            frame_ready[j] # None =>
                \/ last_frame.pts < frame_ready[j]
                \/ last_frame.pts = frame_ready[j] /\ Rank(last_frame.kind) < Rank(j)

\* a frame was delivered while another stream held a ready frame of the same timestamp
C2_Witness ==
    /\ result = "Frame"
    /\ \E j \in Kinds : frame_ready[j] = last_frame.pts /\ j # last_frame.kind

\* C3: when process_next_frame reports end-of-stream, end_of_packet_stream is
\* set, no stream has a ready frame and no decoder of the player still holds a frame.
C3_EndOfStreamLeavesNothing ==
    result = "EndOfStream" =>
        /\ end_of_packet_stream
        /\ \A k \in Kinds :
              /\ frame_ready[k] = None
              /\ decoder[k].present => decoder[k].avail = 0 /\ decoder[k].held = 0

\* C4: once end_of_packet_stream is set the player never gets to read a packet.
C4_NoReadAfterEndOfPackets ==
    pc = "read_next_packet" => ~end_of_packet_stream /\ ~source_eof

\* a call has delivered a frame after end_of_packet_stream was set
C4_Witness ==
    end_of_packet_stream /\ pc = "idle" /\ result = "Frame"

\* C5: flush is invoked at most once on each decoder, and only once the source
\* has reported end-of-input.
C5_FlushOnceAfterEof ==
    \A k \in Kinds :
        /\ flush_calls[k] <= 1
        /\ flush_calls[k] > 0 => source_eof

\* two decoders were flushed and the player has ended
C5_Witness ==
    /\ result = "EndOfStream"
    /\ Cardinality({k \in Kinds : flush_calls[k] = 1}) >= 2

\* C6: every process_next_frame call returns, and a player that keeps being
\* called reports end-of-stream, again and again: at no point does it stay
\* forever inside a call or forever short of end-of-stream.
C6_EventuallyEndOfStream ==
    []<>(pc = "failed" \/ (pc = "idle" /\ result = "EndOfStream"))

\* the player ended after delivering frames and after a call that failed
C6_Witness ==
    /\ result = "EndOfStream"
    /\ statistics.frames_decoded_total >= 2
    /\ source_pos > reads_ok

\* C7: no process_next_frame call returns EAGAIN to its caller.
C7_EagainNeverSurfaced ==
    result # "Err_EAGAIN"

\* C8: a kind without a stream has no decoder, no ready frame, no decoded and no
\* delivered frame; a kind with a stream has its decoder once the player is built.
C8_OnlySelectedKinds ==
    \A k \in Kinds :
        /\ k \notin streams =>
              /\ ~decoder[k].present
              /\ frame_ready[k] = None
              /\ statistics[Counter(k)] = 0
              /\ last_frame.kind # k
        /\ (k \in streams /\ pc \notin {"new", "failed"}) => decoder[k].present

\* a packet of a kind the player has no stream of arrives after a frame was delivered
C8_Witness ==
    /\ pc = "dispatch_packet"
    /\ last_frame.kind # "none"
    /\ packet.frames > 0
    /\ \E k \in Kinds : k \notin streams /\ packet.stream_index = StreamIndex(k)

\* C9: when end-of-stream is reported, frames_decoded_total is the sum of the
\* three per-kind decoded counters.
C9_TotalIsSumAtEnd ==
    result = "EndOfStream" => statistics.frames_decoded_total = DecodedSum

\* C10: packet_read_total is the number of successful reads, and while every
\* packet decodes to at most one frame it is at least frames_decoded_total.
C10_PacketsAtLeastFrames ==
    /\ statistics.packet_read_total = reads_ok
    /\ ~multi_frame_packet =>
          statistics.packet_read_total >= statistics.frames_decoded_total

\* the player ended on single-frame packets, having read them all and met end-of-input
C10_Witness ==
    /\ result = "EndOfStream"
    /\ ~multi_frame_packet
    /\ statistics.packet_read_total = MaxPackets
    /\ statistics.frames_decoded_total = MaxPackets

\* C11: on a subtitle-only source that does not fail, no process_next_frame
\* call returns an error, and when end-of-stream is reported the frames
\* delivered are as many as the subtitle packets that decoded to a subtitle.
C11_OneFramePerSubtitlePacket ==
    /\ result \in {"none", "Frame", "EndOfStream"}
    /\ result = "EndOfStream" =>
          /\ statistics.frames_decoded_total = source_frames
          /\ last_frame.kind \in {"none", "subtitle"}

Viable(a) == hw[a] \in {"native", "variant"}

ViablePositions == {i \in 1..Len(affinity) : Viable(affinity[i])}

FirstViable == CHOOSE i \in ViablePositions : \A j \in ViablePositions : i <= j

\* VideoDecoder::open has returned and nothing but soft accelerator failures occurred
VideoOpenReturned ==
    opening = "VideoDecoder" /\ open_pc \in {"returned", "panicked"} /\ ~faulted

\* C13: the accelerators are tried in affinity order, and when the list has a
\* viable accelerator VideoDecoder::open returns a decoder whose accelerator()
\* is the first viable one, having tried that one last.
C13_FirstViableAccelerator ==
    /\ tried = SubSeq(affinity, 1, Len(tried))
    /\ (VideoOpenReturned /\ ViablePositions # {}) =>
          /\ open_result = "Ok"
          /\ accelerator(video_decoder) = affinity[FirstViable]
          /\ Len(tried) = FirstViable

\* C14: when no accelerator of the list is viable, VideoDecoder::open returns
\* an open software decoder of the original codec whose accelerator() is none.
C14_SoftwareFallback ==
    (VideoOpenReturned /\ ViablePositions = {}) =>
        /\ open_result = "Ok"
        /\ video_decoder.codec = "original"
        /\ ~video_decoder.hw_device_ctx
        /\ accelerator(video_decoder) = "None"

\* C15: a decoder VideoDecoder::open returns from its loop reports the
\* accelerator of that turn, found by hardware config or by codec variant; a
\* decoder returned after the loop is the software decoder and reports none.
C15_AcceleratorRecorded ==
    (opening = "VideoDecoder" /\ open_pc = "returned" /\ open_result = "Ok") =>
        IF next_accelerator <= Len(affinity)
        THEN accelerator(video_decoder) = affinity[next_accelerator]
        ELSE /\ accelerator(video_decoder) = "None"
             /\ video_decoder.codec = "original"
             /\ ~video_decoder.hw_device_ctx

\* C16: a decoder returned by VideoDecoder::open or BaseDecoder::open is open,
\* and the native calls made on it are: create, copy_codec_params if and only
\* if codec parameters were given, then avcodec_open2 once.
C16_ReturnedDecoderIsOpen ==
    (open_pc = "returned" /\ open_result = "Ok") =>
        /\ video_decoder.exists
        /\ Decoder_is_open(video_decoder)
        /\ video_decoder.log = IF codec_params
                               THEN <<"create", "copy_codec_params", "avcodec_open2">>
                               ELSE <<"create", "avcodec_open2">>

\* an accelerated decoder was returned for a stream with codec parameters,
\* after an accelerator the codec does not support was skipped
C16_Witness ==
    /\ open_pc = "returned"
    /\ open_result = "Ok"
    /\ codec_params
    /\ video_decoder.hw_device_ctx
    /\ Len(tried) = 2

\* C17: open called on an open decoder panics, makes no native call and leaves
\* the decoder as it was; no decoder has avcodec_open2 called on it twice.
C17_OpenTwicePanics ==
    [][/\ Decoder_is_open(video_decoder) =>
             /\ open_pc' = "panicked"
             /\ video_decoder' = video_decoder
             /\ open_result' = open_result
       /\ Cardinality({i \in 1..Len(video_decoder'.log) :
                          video_decoder'.log[i] = "avcodec_open2"}) <= 1]_vars

\* open was called again on a returned decoder that uses an accelerator
C17_Witness ==
    /\ open_pc = "panicked"
    /\ opening = "VideoDecoder"
    /\ accelerator(video_decoder) # "None"
    /\ Decoder_is_open(video_decoder)

\* the distinct elements of a list, each at its first occurrence
RECURSIVE FirstOccurrences(_)
FirstOccurrences(v) ==
    IF v = <<>> THEN <<>>
    ELSE LET front == FirstOccurrences(SubSeq(v, 1, Len(v) - 1))
             last == v[Len(v)]
         IN IF \E i \in 1..Len(front) : front[i] = last THEN front
            ELSE Append(front, last)

ValidOn(platform, a) == BitAnd(platform_flags(a), platform) # 0

\* C18: the configured affinity holds each distinct accelerator of the list
\* last supplied (the default list for a fresh config) exactly once, in order of
\* first occurrence, and nothing of an earlier list.
C18_AffinityHasNoDuplicates ==
    /\ \A i, j \in 1..Len(affinity) : affinity[i] = affinity[j] => i = j
    /\ affinity = FirstOccurrences(supplied)

\* C19: set_accelerators always completes and stores the supplied list (runs
\* of one repeated accelerator collapsed), valid for the platform or not; its
\* warning is logged exactly when the platform is known and none of the
\* supplied accelerators is valid for it.
C19_WarnsIffNoneValid ==
    /\ {affinity[i] : i \in 1..Len(affinity)} = {supplied[i] : i \in 1..Len(supplied)}
    /\ (\A i \in 1..(Len(supplied) - 1) : supplied[i] # supplied[i + 1])
          => affinity = supplied
    /\ warned <=> /\ target_platform \in {WINDOWS, LINUX, MACOS}
                  /\ \A i \in 1..Len(supplied) : ~ValidOn(target_platform, supplied[i])

\* a list of two accelerators of other platforms was stored with a warning, and
\* it is not the default list
C19_Witness ==
    /\ warned
    /\ Len(supplied) = 2
    /\ supplied[1] # supplied[2]
    /\ affinity = supplied
    /\ supplied # DEFAULT_ACCELERATOR_AFFINITY(target_platform)

\* C20: play and pause return success when the source's call succeeded or
\* failed with errno -38, and the source's error for any other failure.
C20_NotSupportedIsSuccess ==
    transport.op # "none" =>
        IF transport.source.ok \/ transport.source.errno = ENOSYS
        THEN transport.returned.ok
        ELSE /\ ~transport.returned.ok
             /\ transport.returned.errno = transport.source.errno

\* pause returned success on a source without transport control, after the
\* player had delivered a frame
C20_Witness ==
    /\ transport.op = "pause"
    /\ ~transport.source.ok
    /\ transport.source.errno = ENOSYS
    /\ transport.returned.ok
    /\ last_frame.kind # "none"

\* what the scheduler works on: decoders, readiness markers, the scratch packet,
\* end_of_packet_stream, the statistics and what the caller was last given
scheduler_vars == <<decoder, frame_ready, end_of_packet_stream, packet, statistics,
                    last_frame, delivered, ended, flush_calls, flush_order>>

\* C21: a play or pause call changes nothing of the scheduler's state and
\* leaves the player where process_next_frame can be called; the
\* process_next_frame call that follows starts on that same state.
C21_TransportLeavesSchedulerAlone ==
    [][/\ (transport' # transport /\ transport'.op # "none") =>
             /\ pc = "idle"
             /\ UNCHANGED <<pc, result, scheduler_vars>>
       /\ (transport.op # "none" /\ transport'.op = "none") =>
             /\ pc' = "get_next_frame"
             /\ UNCHANGED scheduler_vars]_vars

\* pause was called while a decoded frame was waiting to be delivered, after
\* another frame had been delivered
C21_Witness ==
    /\ transport.op = "pause"
    /\ last_frame.kind # "none"
    /\ \E k \in Kinds : frame_ready[k] # None /\ frame_ready[k] # I64_MAX

\* the streams of the requested kind that the request can be answered with:
\* all of them without a preferred index, else the one at that index
Designated ==
    {i \in 0..(Len(ctx_streams) - 1) :
        /\ ctx_streams[i + 1].media_type = find_request.media_type
        /\ find_request.preferred_stream_index # None =>
               i = find_request.preferred_stream_index}

FindReturned == find_result.tag # "none"

\* C22: find_best_stream returns Ok(None) when the source has no stream of the
\* requested kind or the preferred index does not designate one; when it
\* returns a stream, it is a stream of the requested kind (the preferred one,
\* if an index was given); it returns an error only where a stream is
\* designated, and never the stream-not-found error.
C22_NoStreamIsNotAnError ==
    FindReturned =>
        /\ Designated = {} => find_result.tag = "None"
        /\ find_result.tag = "Some" => find_result.index \in Designated
        /\ find_result.tag = "Err" =>
              find_result.errno # AVERROR_STREAM_NOT_FOUND
        /\ (\E i \in Designated : ctx_streams[i + 1].has_decoder) =>
              find_result.tag = "Some"

\* the errors that are not soft accelerator failures
FatalErrors == {"alloc_failed", "device_error", "params_error", "open_error"}

\* the accelerators of the affinity list whose class is one of cs
ListedOfClass(cs) == {i \in 1..Len(affinity) : hw[affinity[i]] \in cs}

\* C23: an accelerator whose device cannot be created, or for which the codec
\* has neither a hardware config nor a variant, is passed over: the
\* unavailable-device error is never returned, and where that is the only kind
\* of failure VideoDecoder::open returns an open decoder.
C23_UnavailableAcceleratorSkipped ==
    (opening = "VideoDecoder" /\ open_pc = "returned") =>
        /\ open_result # "device_unavailable"
        /\ (/\ ~faulted
            /\ ListedOfClass({"native_invalid_data", "variant_invalid_data"}) = {})
              => open_result = "Ok"

\* C24: an accelerator whose open rejects the stream data is passed over: the
\* invalid-data error is never returned, and where that is the only kind of
\* failure VideoDecoder::open returns an open decoder.
C24_InvalidDataAcceleratorSkipped ==
    (opening = "VideoDecoder" /\ open_pc = "returned") =>
        /\ open_result # "invalid_data"
        /\ (~faulted /\ ListedOfClass({"native_no_device"}) = {})
              => open_result = "Ok"

\* C25: once a failure that is not a soft accelerator failure has struck,
\* VideoDecoder::open has returned that error without a decoder, having tried
\* no accelerator after the one it struck on, and nothing happens afterwards.
C25_FatalFailureAborts ==
    (opening = "VideoDecoder" /\ faulted) =>
        /\ open_pc = "returned"
        /\ open_result \in FatalErrors
        /\ video_decoder = NoVideoDecoder
        /\ Len(tried) = Min(next_accelerator, Len(affinity))
        /\ ~ENABLED OpenNext

\* the parameter copy failed on the second accelerator of three, after the
\* first one was passed over
C25_Witness ==
    /\ opening = "VideoDecoder"
    /\ faulted
    /\ open_result = "params_error"
    /\ Len(affinity) = 3
    /\ Len(tried) = 2

\* the decoders of the player, video first, then audio, then subtitle
ActiveDecoders ==
    SelectSeq(<<"video", "audio", "subtitle">>, LAMBDA k : decoder[k].present)

\* C26: a decoder that flush was called on hands out every frame it holds and
\* then answers end-of-stream: it keeps no frame back, and a decode call on it
\* returns a frame or end-of-stream, never needs-more-input.
C26_FlushedDecoderDrains ==
    \A k \in Kinds :
        (decoder[k].present /\ flush_calls[k] > 0) =>
            /\ decoder[k].held = 0
            /\ LET r == IF k = "video" THEN VideoDecoder_decode(decoder[k], FALSE)
                        ELSE BaseDecoder_decode(decoder[k], FALSE)
               IN r.res \in {"Ok", "EOF"}

C28_NoDecodeIntoReadySlot ==
    [][\A k \in Kinds :
          /\ pc # "get_next_frame" => frame_ready'[k] = frame_ready[k]
          /\ (pc = "get_next_frame" /\ frame_ready[k] # None) =>
              /\ decoder'[k] = decoder[k]
              /\ statistics'[Counter(k)] = statistics[Counter(k)]
              /\ frame_ready'[k] \in {frame_ready[k], None}]_vars

\* C29: a process_next_frame call made while some stream has a ready frame
\* returns a frame at once: no decoder is polled, no packet is read, nothing is
\* flushed, and packet_read_total and the per-kind decoded counters keep
\* their values.
C29_ReadyFrameServedWithoutWork ==
    [][(pc = "get_next_frame" /\ result = "none" /\ AnyReady(frame_ready)) =>
          /\ pc' = "idle"
          /\ result' = "Frame"
          /\ decoder' = decoder
          /\ UNCHANGED <<flush_calls, flush_order, source_pos, reads_ok,
                         end_of_packet_stream>>
          /\ statistics' = [statistics EXCEPT !.frames_decoded_total = @ + 1]]_vars

\* the decoders whose selected stream is the stream of the scratch packet
Owners == {k \in Kinds : decoder[k].present /\ packet.stream_index = StreamIndex(k)}

\* C30: dispatch_packet leaves every decoder alone but the one whose stream
\* index is the packet's, of which there is at most one; a write that is
\* accepted puts the packet's frames into that decoder; a packet of a stream
\* no decoder was selected for changes no decoder and is no error.
C30_PacketToItsDecoderOnly ==
    [][pc = "dispatch_packet" =>
          /\ Cardinality(Owners) <= 1
          /\ \A k \in Kinds \ Owners : decoder'[k] = decoder[k]
          /\ \A k \in Owners :
                pc' = "get_next_frame" =>
                    decoder'[k].avail + decoder'[k].held
                        = decoder[k].avail + decoder[k].held + packet.frames
          /\ Owners = {} => /\ pc' = "get_next_frame"
                            /\ result' = result]_vars

\* the only packet read so far carried a frame and was dropped: the player has
\* two decoders, both still empty, and nothing was decoded
C30_Witness ==
    /\ pc = "get_next_frame"
    /\ reads_ok = 1
    /\ source_pos = 1
    /\ source_frames > 0
    /\ ~source_eof
    /\ DecodedSum = 0
    /\ Cardinality({k \in Kinds : decoder[k].present}) = 2
    /\ \A k \in Kinds : decoder[k].avail = 0 /\ decoder[k].held = 0

\* C31: a read of the source that fails with an error other than end-of-input
\* ends the process_next_frame call with that error: nothing is flushed,
\* end_of_packet_stream stays false, the statistics (packet_read_total among
\* them) and the decoders are as before, and no dispatch follows.
C31_ReadErrorReturnedAtOnce ==
    [][(pc = "read_next_packet" /\ source_pos' # source_pos /\ reads_ok' = reads_ok) =>
          /\ pc' = "idle"
          /\ result' = "Err_OTHER"
          /\ ~end_of_packet_stream'
          /\ UNCHANGED <<decoder, flush_calls, flush_order, statistics, frame_ready>>]_vars

\* the second read of the source failed after the first had yielded a packet,
\* and the call returned the error
C31_Witness ==
    /\ pc = "idle"
    /\ result = "Err_OTHER"
    /\ source_pos = 2
    /\ reads_ok = 1
    /\ statistics.packet_read_total = 1
    /\ ~end_of_packet_stream
    /\ flush_order = <<>>

\* the subtitles write_packet has stored or was about to store so far
ProducedSubtitles == 1..subtitle_decoder.produced

\* C32: decode answers needs-more-input exactly when the ready slot is empty,
\* else it moves the slot's subtitle to the caller's frame and empties the
\* slot, so that every subtitle write_packet produced is either still in the
\* slot or was returned by exactly one decode call.
C32_EverySubtitleReturnedOnce ==
    \A i \in ProducedSubtitles :
        subtitle_decoder.returned[i]
            + (IF subtitle_decoder.decoder.ready_subtitle = i THEN 1 ELSE 0) = 1

\* C33: once a process_next_frame call has returned end-of-stream, every later
\* call that has returned has returned end-of-stream too (and so delivered no
\* frame).
C33_EndOfStreamAbsorbing ==
    [][(ended /\ pc # "idle" /\ pc' = "idle") => result' = "EndOfStream"]_vars

\* C34: a packet is dispatched only after a poll round in which every active
\* decoder answered needs-more-input: when dispatch_packet runs, no decoder
\* holds an output frame that was not handed to the scheduler yet.
C34_WriteOnlyAfterAllNeedInput ==
    pc = "dispatch_packet" =>
        \A k \in Kinds : decoder[k].present => decoder[k].avail = 0

\* the streams whose readiness marker is set
PendingStreams == {k \in Kinds : frame_ready[k] # None}

\* C35: in every state between two steps of the scheduler, the frames
\* delivered plus the frames pending (one per set marker) are the frames
\* decoded: no decoded frame is lost or counted twice.
C35_DecodedIsDeliveredOrPending ==
    statistics.frames_decoded_total + Cardinality(PendingStreams) = DecodedSum

\* C36: the frames of one stream reach the caller in the order its decoder
\* produced them and none twice: every delivery hands out a frame of its
\* stream that the decoder produced after the one delivered before, and
\* leaves the other streams' record alone.
C36_PerStreamOrderNoDuplicates ==
    [][(pc = "get_next_frame" /\ result' = "Frame") =>
          LET k == last_frame'.kind
          IN /\ delivered'[k] > delivered[k]
             /\ \A j \in Kinds \ {k} : delivered'[j] = delivered[j]]_vars

\* two frames of the video stream and one of the audio stream were delivered
C36_Witness ==
    /\ pc = "idle"
    /\ result = "Frame"
    /\ delivered["video"] = 2
    /\ delivered["audio"] = 1

\* C37: a ready frame is delivered whatever its timestamp: in every state in
\* which some stream's readiness marker is Some(t), for any t up to and
\* including i64::MAX, get_ready_frame returns a frame (so that get_next_frame
\* returns it before polling any decoder).
C37_ReadyFrameDeliveredAtAnyTimestamp ==
    \A k \in Kinds :
        frame_ready[k] \in Pts => get_ready_frame(frame_ready).kind # "none"

\* C38: a seek call only delegates to the source: it returns what the source
\* returned and changes nothing of the scheduler's state (markers, scratch
\* frames, end_of_packet_stream, statistics).  No step of any operation resets
\* end_of_packet_stream, and once it is set no packet is read and no decoder
\* is given a frame, even when a seek has put the source back before its end.
C38_SeekOnlyDelegates ==
    [][/\ (transport' # transport /\ transport'.op = "seek") =>
             /\ pc = "idle"
             /\ transport'.returned = transport'.source
             /\ UNCHANGED <<pc, result, scheduler_vars>>
       /\ end_of_packet_stream =>
             /\ end_of_packet_stream'
             /\ reads_ok' = reads_ok
             /\ source_pos' = source_pos
             /\ statistics'.packet_read_total = statistics.packet_read_total
             /\ \A k \in Kinds : decoder'[k].avail + decoder'[k].held
                                    <= decoder[k].avail + decoder[k].held]_vars

\* after end-of-input a seek put the source back where it has a packet to
\* yield, and the call that followed has returned end-of-stream
C38_Witness ==
    /\ pc = "idle"
    /\ transport.op = "none"
    /\ end_of_packet_stream
    /\ ~source_eof
    /\ source_pos < MaxPackets
    /\ result = "EndOfStream"

\* C39: in both builders the closure build hands to keep_streams holds for a
\* stream exactly when the stream is the selected video, audio or subtitle
\* stream: the streams kept are the streams selected.
C39_KeepsExactlySelectedStreams ==
    builder.built =>
        builder.kept = SelectedStreams(builder.video_stream, builder.audio_stream,
                                       builder.subtitle_stream)

\* C40: the references to a hardware device context are balanced: once
\* construction has failed or the decoder has been destroyed, neither the
\* reference device creation returned nor the one bound to the codec context
\* is left.
C40_DeviceReferencesBalanced ==
    hw_device.phase \in {"failed", "destroyed"} => ReferenceCount(hw_device.refs) = 0

=============================================================================
